---- MODULE Spec2Model ----
(***************************************************************************)
(* env-audit: validation of a .env file against a YAML schema              *)
(* (src/env_audit/cli.py).                                                 *)
(*                                                                         *)
(* Text is a sequence of pieces.  Text that the program inspects character *)
(* by character (file content, lines, keys, values) has one character per  *)
(* piece; the fixed parts of a formatted message are one piece each.       *)
(***************************************************************************)
EXTENDS Integers, Sequences, FiniteSets, TLC

VARIABLES
    value,            \* validate_type: the value argument
    expected_type,    \* validate_type: the expected_type argument
    type_ok,          \* validate_type: the returned bool
    env_file_exists,  \* check: env_file.exists()
    schema_exists,    \* check: schema.exists()
    env_readable,     \* whether env_file.read_text() returns (else it raises)
    content,          \* the text env_file.read_text() returns
    yaml,             \* what yaml.safe_load gives for the schema file
    pc,               \* position in the running function
    env_vars,         \* the dict parse_env_file returns
    schema_data,      \* the value load_schema returns
    errors,           \* the list validate_env returns
    raised,           \* the message of the exception raised (when pc says so)
    stdout,           \* lines echoed to the standard stream
    stderr,           \* lines echoed with err=True
    exit_code,        \* the process's exit code once pc = "exited"
    calls             \* the functions check has invoked, in order

vars == <<value, expected_type, type_ok, env_file_exists, schema_exists,
          env_readable, content, yaml, pc, env_vars, schema_data, errors,
          raised, stdout, stderr, exit_code, calls>>

(***************************************************************************)
(* Bounds of the explored inputs.                                          *)
(***************************************************************************)
MaxValueLen == 3
MaxContentLen == 6
MaxSchemaLen == 2

Range(s) == {s[i] : i \in DOMAIN s}

Strings(A, n) == UNION {[1..k -> A] : k \in 0..n}

(***************************************************************************)
(* Python string primitives, as CPython 3.11 (Unicode 14) computes them.   *)
(* An ASCII character is the piece holding it; a character above U+007F is *)
(* the piece "U+XXXX" naming its code point.                               *)
(***************************************************************************)
\* the ASCII characters str.strip() removes: space, \t, \n, \r, \f and the
\* controls VT (0B), FS (1C), GS (1D), RS (1E), US (1F)
AsciiWhitespace == { "\t", "\n", "", "\f", "\r", "", "", "", "", " " }

\* the other characters str.strip() removes (str.isspace)
UnicodeWhitespace == { "U+0085", "U+00A0", "U+1680", "U+2000", "U+2001", "U+2002",
                       "U+2003", "U+2004", "U+2005", "U+2006", "U+2007", "U+2008",
                       "U+2009", "U+200A", "U+2028", "U+2029", "U+202F", "U+205F",
                       "U+3000" }

Whitespace == AsciiWhitespace \cup UnicodeWhitespace

\* the characters int() skips around a number: the whitespace but FS, GS,
\* RS and US
IntWhitespace == Whitespace \ { "", "", "", "" }

\* the line boundaries of str.splitlines(): \n, \r, \f, VT, FS, GS, RS and
\* NEL, LINE SEPARATOR, PARAGRAPH SEPARATOR
LineBreaks == { "\n", "", "\f", "\r", "", "", "", "U+0085", "U+2028", "U+2029" }

AsciiDigits == {"0", "1", "2", "3", "4", "5", "6", "7", "8", "9"}

\* the decimal digits (category Nd) above U+007F
UnicodeDigits == { "U+0660", "U+0661", "U+0662", "U+0663", "U+0664", "U+0665", "U+0666", "U+0667",
                   "U+0668", "U+0669", "U+06F0", "U+06F1", "U+06F2", "U+06F3", "U+06F4", "U+06F5",
                   "U+06F6", "U+06F7", "U+06F8", "U+06F9", "U+07C0", "U+07C1", "U+07C2", "U+07C3",
                   "U+07C4", "U+07C5", "U+07C6", "U+07C7", "U+07C8", "U+07C9", "U+0966", "U+0967",
                   "U+0968", "U+0969", "U+096A", "U+096B", "U+096C", "U+096D", "U+096E", "U+096F",
                   "U+09E6", "U+09E7", "U+09E8", "U+09E9", "U+09EA", "U+09EB", "U+09EC", "U+09ED",
                   "U+09EE", "U+09EF", "U+0A66", "U+0A67", "U+0A68", "U+0A69", "U+0A6A", "U+0A6B",
                   "U+0A6C", "U+0A6D", "U+0A6E", "U+0A6F", "U+0AE6", "U+0AE7", "U+0AE8", "U+0AE9",
                   "U+0AEA", "U+0AEB", "U+0AEC", "U+0AED", "U+0AEE", "U+0AEF", "U+0B66", "U+0B67",
                   "U+0B68", "U+0B69", "U+0B6A", "U+0B6B", "U+0B6C", "U+0B6D", "U+0B6E", "U+0B6F",
                   "U+0BE6", "U+0BE7", "U+0BE8", "U+0BE9", "U+0BEA", "U+0BEB", "U+0BEC", "U+0BED",
                   "U+0BEE", "U+0BEF", "U+0C66", "U+0C67", "U+0C68", "U+0C69", "U+0C6A", "U+0C6B",
                   "U+0C6C", "U+0C6D", "U+0C6E", "U+0C6F", "U+0CE6", "U+0CE7", "U+0CE8", "U+0CE9",
                   "U+0CEA", "U+0CEB", "U+0CEC", "U+0CED", "U+0CEE", "U+0CEF", "U+0D66", "U+0D67",
                   "U+0D68", "U+0D69", "U+0D6A", "U+0D6B", "U+0D6C", "U+0D6D", "U+0D6E", "U+0D6F",
                   "U+0DE6", "U+0DE7", "U+0DE8", "U+0DE9", "U+0DEA", "U+0DEB", "U+0DEC", "U+0DED",
                   "U+0DEE", "U+0DEF", "U+0E50", "U+0E51", "U+0E52", "U+0E53", "U+0E54", "U+0E55",
                   "U+0E56", "U+0E57", "U+0E58", "U+0E59", "U+0ED0", "U+0ED1", "U+0ED2", "U+0ED3",
                   "U+0ED4", "U+0ED5", "U+0ED6", "U+0ED7", "U+0ED8", "U+0ED9", "U+0F20", "U+0F21",
                   "U+0F22", "U+0F23", "U+0F24", "U+0F25", "U+0F26", "U+0F27", "U+0F28", "U+0F29",
                   "U+1040", "U+1041", "U+1042", "U+1043", "U+1044", "U+1045", "U+1046", "U+1047",
                   "U+1048", "U+1049", "U+1090", "U+1091", "U+1092", "U+1093", "U+1094", "U+1095",
                   "U+1096", "U+1097", "U+1098", "U+1099", "U+17E0", "U+17E1", "U+17E2", "U+17E3",
                   "U+17E4", "U+17E5", "U+17E6", "U+17E7", "U+17E8", "U+17E9", "U+1810", "U+1811",
                   "U+1812", "U+1813", "U+1814", "U+1815", "U+1816", "U+1817", "U+1818", "U+1819",
                   "U+1946", "U+1947", "U+1948", "U+1949", "U+194A", "U+194B", "U+194C", "U+194D",
                   "U+194E", "U+194F", "U+19D0", "U+19D1", "U+19D2", "U+19D3", "U+19D4", "U+19D5",
                   "U+19D6", "U+19D7", "U+19D8", "U+19D9", "U+1A80", "U+1A81", "U+1A82", "U+1A83",
                   "U+1A84", "U+1A85", "U+1A86", "U+1A87", "U+1A88", "U+1A89", "U+1A90", "U+1A91",
                   "U+1A92", "U+1A93", "U+1A94", "U+1A95", "U+1A96", "U+1A97", "U+1A98", "U+1A99",
                   "U+1B50", "U+1B51", "U+1B52", "U+1B53", "U+1B54", "U+1B55", "U+1B56", "U+1B57",
                   "U+1B58", "U+1B59", "U+1BB0", "U+1BB1", "U+1BB2", "U+1BB3", "U+1BB4", "U+1BB5",
                   "U+1BB6", "U+1BB7", "U+1BB8", "U+1BB9", "U+1C40", "U+1C41", "U+1C42", "U+1C43",
                   "U+1C44", "U+1C45", "U+1C46", "U+1C47", "U+1C48", "U+1C49", "U+1C50", "U+1C51",
                   "U+1C52", "U+1C53", "U+1C54", "U+1C55", "U+1C56", "U+1C57", "U+1C58", "U+1C59",
                   "U+A620", "U+A621", "U+A622", "U+A623", "U+A624", "U+A625", "U+A626", "U+A627",
                   "U+A628", "U+A629", "U+A8D0", "U+A8D1", "U+A8D2", "U+A8D3", "U+A8D4", "U+A8D5",
                   "U+A8D6", "U+A8D7", "U+A8D8", "U+A8D9", "U+A900", "U+A901", "U+A902", "U+A903",
                   "U+A904", "U+A905", "U+A906", "U+A907", "U+A908", "U+A909", "U+A9D0", "U+A9D1",
                   "U+A9D2", "U+A9D3", "U+A9D4", "U+A9D5", "U+A9D6", "U+A9D7", "U+A9D8", "U+A9D9",
                   "U+A9F0", "U+A9F1", "U+A9F2", "U+A9F3", "U+A9F4", "U+A9F5", "U+A9F6", "U+A9F7",
                   "U+A9F8", "U+A9F9", "U+AA50", "U+AA51", "U+AA52", "U+AA53", "U+AA54", "U+AA55",
                   "U+AA56", "U+AA57", "U+AA58", "U+AA59", "U+ABF0", "U+ABF1", "U+ABF2", "U+ABF3",
                   "U+ABF4", "U+ABF5", "U+ABF6", "U+ABF7", "U+ABF8", "U+ABF9", "U+FF10", "U+FF11",
                   "U+FF12", "U+FF13", "U+FF14", "U+FF15", "U+FF16", "U+FF17", "U+FF18", "U+FF19",
                   "U+104A0", "U+104A1", "U+104A2", "U+104A3", "U+104A4", "U+104A5", "U+104A6", "U+104A7",
                   "U+104A8", "U+104A9", "U+10D30", "U+10D31", "U+10D32", "U+10D33", "U+10D34", "U+10D35",
                   "U+10D36", "U+10D37", "U+10D38", "U+10D39", "U+11066", "U+11067", "U+11068", "U+11069",
                   "U+1106A", "U+1106B", "U+1106C", "U+1106D", "U+1106E", "U+1106F", "U+110F0", "U+110F1",
                   "U+110F2", "U+110F3", "U+110F4", "U+110F5", "U+110F6", "U+110F7", "U+110F8", "U+110F9",
                   "U+11136", "U+11137", "U+11138", "U+11139", "U+1113A", "U+1113B", "U+1113C", "U+1113D",
                   "U+1113E", "U+1113F", "U+111D0", "U+111D1", "U+111D2", "U+111D3", "U+111D4", "U+111D5",
                   "U+111D6", "U+111D7", "U+111D8", "U+111D9", "U+112F0", "U+112F1", "U+112F2", "U+112F3",
                   "U+112F4", "U+112F5", "U+112F6", "U+112F7", "U+112F8", "U+112F9", "U+11450", "U+11451",
                   "U+11452", "U+11453", "U+11454", "U+11455", "U+11456", "U+11457", "U+11458", "U+11459",
                   "U+114D0", "U+114D1", "U+114D2", "U+114D3", "U+114D4", "U+114D5", "U+114D6", "U+114D7",
                   "U+114D8", "U+114D9", "U+11650", "U+11651", "U+11652", "U+11653", "U+11654", "U+11655",
                   "U+11656", "U+11657", "U+11658", "U+11659", "U+116C0", "U+116C1", "U+116C2", "U+116C3",
                   "U+116C4", "U+116C5", "U+116C6", "U+116C7", "U+116C8", "U+116C9", "U+11730", "U+11731",
                   "U+11732", "U+11733", "U+11734", "U+11735", "U+11736", "U+11737", "U+11738", "U+11739",
                   "U+118E0", "U+118E1", "U+118E2", "U+118E3", "U+118E4", "U+118E5", "U+118E6", "U+118E7",
                   "U+118E8", "U+118E9", "U+11950", "U+11951", "U+11952", "U+11953", "U+11954", "U+11955",
                   "U+11956", "U+11957", "U+11958", "U+11959", "U+11C50", "U+11C51", "U+11C52", "U+11C53",
                   "U+11C54", "U+11C55", "U+11C56", "U+11C57", "U+11C58", "U+11C59", "U+11D50", "U+11D51",
                   "U+11D52", "U+11D53", "U+11D54", "U+11D55", "U+11D56", "U+11D57", "U+11D58", "U+11D59",
                   "U+11DA0", "U+11DA1", "U+11DA2", "U+11DA3", "U+11DA4", "U+11DA5", "U+11DA6", "U+11DA7",
                   "U+11DA8", "U+11DA9", "U+16A60", "U+16A61", "U+16A62", "U+16A63", "U+16A64", "U+16A65",
                   "U+16A66", "U+16A67", "U+16A68", "U+16A69", "U+16AC0", "U+16AC1", "U+16AC2", "U+16AC3",
                   "U+16AC4", "U+16AC5", "U+16AC6", "U+16AC7", "U+16AC8", "U+16AC9", "U+16B50", "U+16B51",
                   "U+16B52", "U+16B53", "U+16B54", "U+16B55", "U+16B56", "U+16B57", "U+16B58", "U+16B59",
                   "U+1D7CE", "U+1D7CF", "U+1D7D0", "U+1D7D1", "U+1D7D2", "U+1D7D3", "U+1D7D4", "U+1D7D5",
                   "U+1D7D6", "U+1D7D7", "U+1D7D8", "U+1D7D9", "U+1D7DA", "U+1D7DB", "U+1D7DC", "U+1D7DD",
                   "U+1D7DE", "U+1D7DF", "U+1D7E0", "U+1D7E1", "U+1D7E2", "U+1D7E3", "U+1D7E4", "U+1D7E5",
                   "U+1D7E6", "U+1D7E7", "U+1D7E8", "U+1D7E9", "U+1D7EA", "U+1D7EB", "U+1D7EC", "U+1D7ED",
                   "U+1D7EE", "U+1D7EF", "U+1D7F0", "U+1D7F1", "U+1D7F2", "U+1D7F3", "U+1D7F4", "U+1D7F5",
                   "U+1D7F6", "U+1D7F7", "U+1D7F8", "U+1D7F9", "U+1D7FA", "U+1D7FB", "U+1D7FC", "U+1D7FD",
                   "U+1D7FE", "U+1D7FF", "U+1E140", "U+1E141", "U+1E142", "U+1E143", "U+1E144", "U+1E145",
                   "U+1E146", "U+1E147", "U+1E148", "U+1E149", "U+1E2F0", "U+1E2F1", "U+1E2F2", "U+1E2F3",
                   "U+1E2F4", "U+1E2F5", "U+1E2F6", "U+1E2F7", "U+1E2F8", "U+1E2F9", "U+1E950", "U+1E951",
                   "U+1E952", "U+1E953", "U+1E954", "U+1E955", "U+1E956", "U+1E957", "U+1E958", "U+1E959",
                   "U+1FBF0", "U+1FBF1", "U+1FBF2", "U+1FBF3", "U+1FBF4", "U+1FBF5", "U+1FBF6", "U+1FBF7",
                   "U+1FBF8", "U+1FBF9" }

\* the characters int() reads as a decimal digit
Digits == AsciiDigits \cup UnicodeDigits

\* sys.get_int_max_str_digits(): the longest digit string int() converts
IntMaxStrDigits == 4300

UpperCase == <<"A", "B", "C", "D", "E", "F", "G", "H", "I", "J", "K", "L", "M",
               "N", "O", "P", "Q", "R", "S", "T", "U", "V", "W", "X", "Y", "Z">>

LowerCase == <<"a", "b", "c", "d", "e", "f", "g", "h", "i", "j", "k", "l", "m",
               "n", "o", "p", "q", "r", "s", "t", "u", "v", "w", "x", "y", "z">>

\* str.lower() on one character, as text: the ASCII capitals, and the two
\* characters above U+007F whose lowercase holds an ASCII letter (KELVIN
\* SIGN, and I WITH DOT ABOVE, whose lowercase is two characters); the
\* lowercase of every other character above U+007F holds no ASCII
\* character, and it stands here as the character itself
lower_char(c) ==
    IF \E i \in DOMAIN UpperCase : UpperCase[i] = c
    THEN <<LowerCase[CHOOSE i \in DOMAIN UpperCase : UpperCase[i] = c]>>
    ELSE IF c = "U+212A" THEN <<"k">>
    ELSE IF c = "U+0130" THEN <<"i", "U+0307">>
    ELSE <<c>>

RECURSIVE lower_concat(_)
lower_concat(s) ==
    IF s = <<>> THEN <<>> ELSE lower_char(Head(s)) \o lower_concat(Tail(s))

\* str.lower(): character by character where no character grows
lower(s) ==
    IF \A i \in DOMAIN s : Len(lower_char(s[i])) = 1
    THEN [i \in DOMAIN s |-> lower_char(s[i])[1]]
    ELSE lower_concat(s)

\* str.lstrip(chars): the text from its first character outside chars
lstrip(s, chars) ==
    IF \A i \in DOMAIN s : s[i] \in chars
    THEN <<>>
    ELSE SubSeq(s, CHOOSE i \in DOMAIN s :
                       s[i] \notin chars /\ \A j \in 1..(i - 1) : s[j] \in chars,
                Len(s))

\* str.rstrip(chars): the text up to its last character outside chars
rstrip(s, chars) ==
    IF \A i \in DOMAIN s : s[i] \in chars
    THEN <<>>
    ELSE SubSeq(s, 1, CHOOSE i \in DOMAIN s :
                          s[i] \notin chars /\ \A j \in (i + 1)..Len(s) : s[j] \in chars)

\* str.strip(chars): leading and trailing characters of the set removed
strip_chars(s, chars) == rstrip(lstrip(s, chars), chars)

\* str.strip(): leading and trailing whitespace removed
strip(s) == strip_chars(s, Whitespace)

RECURSIVE splitlines(_)
\* str.splitlines(): the lines without their line breaks; \r\n is one
\* break, and a final line break opens no further line
splitlines(s) ==
    IF s = <<>> THEN <<>>
    ELSE IF \A i \in DOMAIN s : s[i] \notin LineBreaks THEN <<s>>
    ELSE LET i == CHOOSE k \in DOMAIN s :
                      s[k] \in LineBreaks /\ \A j \in 1..(k - 1) : s[j] \notin LineBreaks
             n == IF s[i] = "\r" /\ i < Len(s) /\ s[i + 1] = "\n" THEN 2 ELSE 1
         IN  <<SubSeq(s, 1, i - 1)>> \o splitlines(SubSeq(s, i + n, Len(s)))

\* the index of the first occurrence of c in s (c occurs in s)
first_index(s, c) == CHOOSE i \in DOMAIN s : s[i] = c /\ \A j \in 1..(i - 1) : s[j] # c

\* str.partition(sep)[0] for a one-character sep that occurs in s
partition_before(s, sep) == SubSeq(s, 1, first_index(s, sep) - 1)

\* str.partition(sep)[2] for a one-character sep that occurs in s
partition_after(s, sep) == SubSeq(s, first_index(s, sep) + 1, Len(s))

RECURSIVE decimal(_)
\* str(n) of a natural number
decimal(n) ==
    LET d == <<"0", "1", "2", "3", "4", "5", "6", "7", "8", "9">>[(n % 10) + 1]
    IN  IF n < 10 THEN <<d>> ELSE Append(decimal(n \div 10), d)

\* whether int(s) returns rather than raising ValueError: surrounding
\* whitespace is skipped, one ASCII sign is allowed, single underscores may
\* stand between digits, and more than IntMaxStrDigits digits are refused
int_parses(s) ==
    LET t == strip_chars(s, IntWhitespace)
        body == IF t # <<>> /\ t[1] \in {"+", "-"} THEN Tail(t) ELSE t
    IN  /\ body # <<>>
        /\ \A i \in DOMAIN body : body[i] \in Digits \cup {"_"}
        /\ body[1] # "_"
        /\ body[Len(body)] # "_"
        /\ \A i \in 1..(Len(body) - 1) : ~(body[i] = "_" /\ body[i + 1] = "_")
        /\ Cardinality({ i \in DOMAIN body : body[i] # "_" }) <= IntMaxStrDigits

(***************************************************************************)
(* validate_type                                                           *)
(***************************************************************************)
BoolWords == { <<"t", "r", "u", "e">>, <<"f", "a", "l", "s", "e">>, <<"1">>,
               <<"0">>, <<"y", "e", "s">>, <<"n", "o">> }

\* the bool branch comparing the value as written, without value.lower()
validate_type_case_sensitive(v, kind) ==
    IF kind = "string" THEN TRUE
    ELSE IF kind = "int" THEN int_parses(v)
    ELSE IF kind = "bool" THEN v \in BoolWords
    ELSE TRUE

validate_type(v, kind) ==
    IF kind = "string" THEN TRUE
    ELSE IF kind = "int" THEN int_parses(v)
    ELSE IF kind = "bool" THEN lower(v) \in BoolWords
    ELSE TRUE

(***************************************************************************)
(* parse_env_file                                                          *)
(***************************************************************************)
\* an assignment that keeps the value of a key already present
dict_set_keep_first(d, key, val) ==
    [k \in (DOMAIN d) \cup {key} |-> IF k \in DOMAIN d THEN d[k] ELSE val]

\* env_vars[key] = value on a dict
dict_set(d, key, val) ==
    [k \in (DOMAIN d) \cup {key} |-> IF k = key THEN val ELSE d[k]]

\* the empty dict
EmptyDict == [k \in {} |-> <<>>]

\* line 17: the stripped line is empty or a comment
skipped(line) == line = <<>> \/ Head(line) = "#"

\* unquoting that removes one quote character from each end
strip_value_one_layer(v) ==
    LET t == strip(v)
        u == IF t # <<>> /\ Head(t) \in {"\"", "'"} THEN Tail(t) ELSE t
    IN  IF u # <<>> /\ u[Len(u)] \in {"\"", "'"}
        THEN SubSeq(u, 1, Len(u) - 1)
        ELSE u

\* line 25: value.strip().strip("\"'")
strip_value(v) == strip_chars(strip(v), {"\"", "'"})

\* line 21: the message of the typer.BadParameter raised
syntax_message(line_num, line) ==
    <<"Invalid syntax at line ">> \o decimal(line_num) \o <<": ">> \o line

RECURSIVE parse_lines(_, _, _)
\* lines 14-28: the loop from line number line_num on, env the dict so far
parse_lines(lines, line_num, env) ==
    IF line_num > Len(lines)
    THEN [raised |-> FALSE, message |-> <<>>, env_vars |-> env]
    ELSE LET line == strip(lines[line_num])
         IN  IF skipped(line)
             THEN parse_lines(lines, line_num + 1, env)
             ELSE IF "=" \notin Range(line)
             THEN [raised |-> TRUE,
                   message |-> syntax_message(line_num, line),
                   env_vars |-> EmptyDict]
             ELSE LET key == strip(partition_before(line, "="))
                      val == strip_value(partition_after(line, "="))
                  IN  parse_lines(lines, line_num + 1, dict_set(env, key, val))

\* parse_env_file on the text the file holds
parse_env_file(text) == parse_lines(splitlines(text), 1, EmptyDict)

\* path.read_text() raising (the path is a directory, unreadable, not text)
ReadErrorMessage == <<"[Errno] cannot read file">>

\* parse_env_file(path) inside check: the read may raise before the loop
parse_env_path(readable, text) ==
    IF readable
    THEN parse_env_file(text)
    ELSE [raised |-> TRUE, message |-> ReadErrorMessage, env_vars |-> EmptyDict]

(***************************************************************************)
(* load_schema.  yaml.safe_load is a library: its result is an input,      *)
(* [kind, entries] with kind "raise" (read or YAML error), "none" (empty   *)
(* document), "scalar" (a truthy value that is no mapping) or "mapping";   *)
(* entries lists a mapping's items in insertion order, names distinct.     *)
(* A rule is [is_mapping, has_required, required, has_type, type].         *)
(***************************************************************************)
YamlErrorMessage == <<"yaml: could not load schema">>

load_schema(y) ==
    IF y.kind = "raise"
    THEN [raised |-> TRUE, message |-> YamlErrorMessage, data |-> y]
    ELSE IF y.kind = "none"
    THEN [raised |-> FALSE, message |-> <<>>,
          data |-> [kind |-> "mapping", entries |-> <<>>]]
    ELSE [raised |-> FALSE, message |-> <<>>, data |-> y]

(***************************************************************************)
(* validate_env                                                            *)
(***************************************************************************)
\* rules.get("required", True): the default inverted
get_required_default_true(rules) == IF rules.has_required THEN rules.required ELSE TRUE

\* rules.get("required", False)
get_required(rules) == IF rules.has_required THEN rules.required ELSE FALSE

\* rules.get("type", "string")
get_type(rules) == IF rules.has_type THEN rules.type ELSE "string"

missing_message(var_name) == <<"Missing required variable: ">> \o var_name

type_message(var_name, kind, val) ==
    var_name \o <<": expected ", kind, ", got '">> \o val \o <<"'">>

AttributeErrorMessage == <<"object has no attribute">>

RECURSIVE validate_entries(_, _, _, _)
\* lines 53-66: the loop from entry i on, errs the list so far
validate_entries(env, entries, i, errs) ==
    IF i > Len(entries)
    THEN [raised |-> FALSE, message |-> <<>>, errors |-> errs]
    ELSE LET var_name == entries[i].name
             rules == entries[i].rules
         IN  IF ~rules.is_mapping
             THEN [raised |-> TRUE, message |-> AttributeErrorMessage,
                   errors |-> <<>>]
             ELSE IF var_name \notin DOMAIN env
             THEN validate_entries(env, entries, i + 1,
                      IF get_required(rules)
                      THEN Append(errs, missing_message(var_name))
                      ELSE errs)
             ELSE validate_entries(env, entries, i + 1,
                      IF ~validate_type(env[var_name], get_type(rules))
                      THEN Append(errs, type_message(var_name, get_type(rules),
                                                     env[var_name]))
                      ELSE errs)

validate_env(env, schema) ==
    IF schema.kind # "mapping"
    THEN [raised |-> TRUE, message |-> AttributeErrorMessage, errors |-> <<>>]
    ELSE validate_entries(env, schema.entries, 1, <<>>)

(***************************************************************************)
(* Inputs.                                                                 *)
(***************************************************************************)
TypeAlphabet == {"1", "-", "+", "_", " ", ".", "e", "n", "o", "N"}

TypeSamples == { <<"1", "2", "3">>, <<"-", "4", "5", "6">>,
                 <<"1", "2", ".", "3", "4">>, <<"a", "b", "c">>,
                 <<"1", "_", "_", "1">>, <<"1", "_", "0", "0", "0">>,
                 <<"\t", "7", "\n">>, <<"0", "0", "7">>,
                 <<"t", "r", "u", "e">>, <<"T", "r", "u", "e">>,
                 <<"f", "a", "l", "s", "e">>, <<"F", "A", "L", "S", "E">>,
                 <<"y", "e", "s">>, <<"Y", "e", "S">>, <<"0">>,
                 <<"n", "o", "t", "a", "b", "o", "o", "l">>,
                 <<"t", "r", "u">>, <<"y">>, <<"o", "f", "f">>,
                 <<"1", "">>, <<"", "-", "1", "\f">>, <<"1", "">>,
                 <<"", "1">>, <<"1", "U+00A0">>, <<"U+2003", "1", "U+0085">>,
                 <<"U+0663">>, <<"U+FF11", "U+FF12">>, <<"-", "U+0663", "_", "7">>,
                 <<"U+00B2">>, <<"U+212A">>, <<"N", "O", "U+00A0">>,
                 [i \in 1..IntMaxStrDigits |-> "1"],
                 [i \in 1..(IntMaxStrDigits + 1) |-> "1"],
                 <<"-">> \o [i \in 1..(IntMaxStrDigits + 1) |-> "0"] }

TypeValues == Strings(TypeAlphabet, MaxValueLen) \cup TypeSamples

Kinds == {"string", "int", "bool", "float", "INT"}

ParseAlphabet == {"a", "=", "#", " ", "\n", "\""}

\* texts with the other line boundaries and whitespace
ContentSamples ==
    { <<"A", "=", "1", "", "B", "=", "2">>,
      <<"A", "=", "1", "", "B">>,
      <<"", "A", "=", "1">>,
      <<"a", "=", "1", "", "", " ", "b", "", "a", "=", "2">>,
      <<"a", "", "=", "", "'", "x", "'", "">>,
      <<"", "a", "">>,
      <<"a", "=", "\"", "", "x", "\"">>,
      <<"a", "=", "1", "\f", "#", "c", "\f", "\f", "b", "=">>,
      <<"a", "=", "1", "U+2028", "b", "U+0085", "c", "=", "3">>,
      <<"U+00A0", "a", "U+3000", "=", "U+2003", "\"", "x", "\"", "U+00A0">>,
      <<"U+00A0", "#", "c", "U+2029", "U+00A0", "b">> }

Contents == Strings(ParseAlphabet, MaxContentLen) \cup ContentSamples

Names == { <<"A">>, <<"B">>, <<"C">> }

CheckNames == { <<"A">>, <<"B">> }

EnvValues == { <<"1">>, <<"x">> }

Rule(m, hr, r, ht, t) ==
    [is_mapping |-> m, has_required |-> hr, required |-> r,
     has_type |-> ht, type |-> t]

Rules == { Rule(TRUE, FALSE, FALSE, FALSE, "string"),
           Rule(TRUE, TRUE, TRUE, FALSE, "string"),
           Rule(TRUE, TRUE, FALSE, FALSE, "string"),
           Rule(TRUE, FALSE, FALSE, TRUE, "int"),
           Rule(TRUE, TRUE, TRUE, TRUE, "int"),
           Rule(TRUE, FALSE, FALSE, TRUE, "bool"),
           Rule(TRUE, TRUE, TRUE, TRUE, "float"),
           Rule(TRUE, TRUE, FALSE, TRUE, "string"),
           Rule(FALSE, FALSE, FALSE, FALSE, "string") }

\* the item lists of the mappings over the names: no name twice
EntryLists(names) ==
    { es \in UNION { [1..k -> [name : names, rules : Rules]] : k \in 0..MaxSchemaLen } :
        \A i, j \in DOMAIN es : i # j => es[i].name # es[j].name }

Mappings(names) == { [kind |-> "mapping", entries |-> es] : es \in EntryLists(names) }

YamlValues(names) ==
    Mappings(names) \cup { [kind |-> k, entries |-> <<>>] : k \in {"raise", "none", "scalar"} }

Envs == UNION { [ks -> EnvValues] : ks \in SUBSET Names }

EnvTexts == { <<>>,
              <<"A", "=", "1">>,
              <<"A", "=", "x", "\n", "B", "=", "'", "n", "o", "'">>,
              <<"o", "o", "p", "s">>,
              <<"#", "c", "\n", "A", "=", "1", "\n", " ", "B">> }

EnvPath == ".env"

SchemaPath == "schema.yaml"

NoYaml == [kind |-> "none", entries |-> <<>>]

NoSchema == [kind |-> "mapping", entries |-> <<>>]

\* the variables a specification does not use keep these values
IdleType == value = <<>> /\ expected_type = "string" /\ type_ok = FALSE

IdleFiles ==
    /\ env_file_exists = TRUE /\ schema_exists = TRUE /\ env_readable = TRUE
    /\ yaml = NoYaml

IdleOutput == stdout = <<>> /\ stderr = <<>> /\ exit_code = 0 /\ calls = <<>>

(***************************************************************************)
(* SpecType: validate_type applied to every value and kind of the bounds.  *)
(***************************************************************************)
InitType ==
    /\ value \in TypeValues
    /\ expected_type \in Kinds
    /\ type_ok = FALSE
    /\ pc = "call"
    /\ IdleFiles /\ IdleOutput
    /\ content = <<>> /\ env_vars = EmptyDict /\ schema_data = NoSchema
    /\ errors = <<>> /\ raised = <<>>

CallValidateType ==
    /\ pc = "call"
    /\ type_ok' = validate_type(value, expected_type)
    /\ pc' = "returned"
    /\ UNCHANGED <<value, expected_type, env_file_exists, schema_exists,
                   env_readable, content, yaml, env_vars, schema_data, errors,
                   raised, stdout, stderr, exit_code, calls>>

NextType == CallValidateType

SpecType == InitType /\ [][NextType]_vars

(***************************************************************************)
(* SpecParse: parse_env_file applied to every text of the bounds.          *)
(***************************************************************************)
InitParse ==
    /\ content \in Contents
    /\ pc = "call"
    /\ IdleType /\ IdleFiles /\ IdleOutput
    /\ env_vars = EmptyDict /\ schema_data = NoSchema
    /\ errors = <<>> /\ raised = <<>>

ParseReturns ==
    /\ pc = "call"
    /\ ~parse_env_file(content).raised
    /\ env_vars' = parse_env_file(content).env_vars
    /\ pc' = "returned"
    /\ UNCHANGED <<value, expected_type, type_ok, env_file_exists, schema_exists,
                   env_readable, content, yaml, schema_data, errors, raised,
                   stdout, stderr, exit_code, calls>>

ParseRaises ==
    /\ pc = "call"
    /\ parse_env_file(content).raised
    /\ raised' = parse_env_file(content).message
    /\ pc' = "raised"
    /\ UNCHANGED <<value, expected_type, type_ok, env_file_exists, schema_exists,
                   env_readable, content, yaml, env_vars, schema_data, errors,
                   stdout, stderr, exit_code, calls>>

NextParse == ParseReturns \/ ParseRaises

SpecParse == InitParse /\ [][NextParse]_vars

(***************************************************************************)
(* SpecValidate: validate_env applied to every dict and schema of the      *)
(* bounds.                                                                 *)
(***************************************************************************)
InitValidate ==
    /\ env_vars \in Envs
    /\ schema_data \in Mappings(Names)
    /\ pc = "call"
    /\ IdleType /\ IdleFiles /\ IdleOutput
    /\ content = <<>> /\ errors = <<>> /\ raised = <<>>

ValidateReturns ==
    /\ pc = "call"
    /\ ~validate_env(env_vars, schema_data).raised
    /\ errors' = validate_env(env_vars, schema_data).errors
    /\ pc' = "returned"
    /\ UNCHANGED <<value, expected_type, type_ok, env_file_exists, schema_exists,
                   env_readable, content, yaml, env_vars, schema_data, raised,
                   stdout, stderr, exit_code, calls>>

ValidateRaises ==
    /\ pc = "call"
    /\ validate_env(env_vars, schema_data).raised
    /\ raised' = validate_env(env_vars, schema_data).message
    /\ pc' = "raised"
    /\ UNCHANGED <<value, expected_type, type_ok, env_file_exists, schema_exists,
                   env_readable, content, yaml, env_vars, schema_data, errors,
                   stdout, stderr, exit_code, calls>>

NextValidate == ValidateReturns \/ ValidateRaises

SpecValidate == InitValidate /\ [][NextValidate]_vars

(***************************************************************************)
(* Spec: one run of the check command, a step per statement of check.      *)
(***************************************************************************)
Bullet == "U+2022"

CheckMark == "U+2713"

not_found_line(path) == <<"Error: ", path, " not found">>

exception_line(message) == <<"Error: ">> \o message

FailedHeader == <<"Validation failed:">>

bullet_line(error) == <<"  ", Bullet, " ">> \o error

SuccessLine == <<CheckMark, " Validation passed">>

Init ==
    /\ env_file_exists \in BOOLEAN
    /\ schema_exists \in BOOLEAN
    /\ env_readable \in BOOLEAN
    /\ content \in EnvTexts
    /\ yaml \in YamlValues(CheckNames)
    /\ pc = "check_env"
    /\ IdleType
    /\ env_vars = EmptyDict /\ schema_data = NoSchema
    /\ errors = <<>> /\ raised = <<>>
    /\ stdout = <<>> /\ stderr = <<>> /\ exit_code = 0 /\ calls = <<>>

\* lines 74-76
CheckEnvFile ==
    /\ pc = "check_env"
    /\ IF ~env_file_exists
       THEN /\ stderr' = Append(stderr, not_found_line(EnvPath))
            /\ exit_code' = 1
            /\ pc' = "exited"
       ELSE /\ pc' = "check_schema"
            /\ UNCHANGED <<stderr, exit_code>>
    /\ UNCHANGED <<value, expected_type, type_ok, env_file_exists, schema_exists,
                   env_readable, content, yaml, env_vars, schema_data, errors,
                   raised, stdout, calls>>

\* the schema check echoing its message without err=True
CheckSchemaFile_echo_stdout ==
    /\ pc = "check_schema"
    /\ IF ~schema_exists
       THEN /\ stdout' = Append(stdout, not_found_line(SchemaPath))
            /\ exit_code' = 1
            /\ pc' = "exited"
       ELSE /\ pc' = "parse"
            /\ UNCHANGED <<stdout, exit_code>>
    /\ UNCHANGED <<value, expected_type, type_ok, env_file_exists, schema_exists,
                   env_readable, content, yaml, env_vars, schema_data, errors,
                   raised, stderr, calls>>

\* lines 78-80
CheckSchemaFile ==
    /\ pc = "check_schema"
    /\ IF ~schema_exists
       THEN /\ stderr' = Append(stderr, not_found_line(SchemaPath))
            /\ exit_code' = 1
            /\ pc' = "exited"
       ELSE /\ pc' = "parse"
            /\ UNCHANGED <<stderr, exit_code>>
    /\ UNCHANGED <<value, expected_type, type_ok, env_file_exists, schema_exists,
                   env_readable, content, yaml, env_vars, schema_data, errors,
                   raised, stdout, calls>>

\* lines 82-83, and 86-88 when parse_env_file raises
TryParse ==
    /\ pc = "parse"
    /\ calls' = Append(calls, "parse_env_file")
    /\ LET r == parse_env_path(env_readable, content)
       IN  IF r.raised
           THEN /\ raised' = r.message
                /\ stderr' = Append(stderr, exception_line(r.message))
                /\ exit_code' = 1
                /\ pc' = "exited"
                /\ UNCHANGED env_vars
           ELSE /\ env_vars' = r.env_vars
                /\ pc' = "load"
                /\ UNCHANGED <<raised, stderr, exit_code>>
    /\ UNCHANGED <<value, expected_type, type_ok, env_file_exists, schema_exists,
                   env_readable, content, yaml, schema_data, errors, stdout>>

\* a handler that reports the exception of load_schema and carries on
TryLoad_keeps_going ==
    /\ pc = "load"
    /\ calls' = Append(calls, "load_schema")
    /\ LET r == load_schema(yaml)
       IN  IF r.raised
           THEN /\ raised' = r.message
                /\ stderr' = Append(stderr, exception_line(r.message))
                /\ exit_code' = 1
                /\ pc' = "validate"
                /\ UNCHANGED schema_data
           ELSE /\ schema_data' = r.data
                /\ pc' = "validate"
                /\ UNCHANGED <<raised, stderr, exit_code>>
    /\ UNCHANGED <<value, expected_type, type_ok, env_file_exists, schema_exists,
                   env_readable, content, yaml, env_vars, errors, stdout>>

\* line 84, and 86-88 when load_schema raises
TryLoad ==
    /\ pc = "load"
    /\ calls' = Append(calls, "load_schema")
    /\ LET r == load_schema(yaml)
       IN  IF r.raised
           THEN /\ raised' = r.message
                /\ stderr' = Append(stderr, exception_line(r.message))
                /\ exit_code' = 1
                /\ pc' = "exited"
                /\ UNCHANGED schema_data
           ELSE /\ schema_data' = r.data
                /\ pc' = "validate"
                /\ UNCHANGED <<raised, stderr, exit_code>>
    /\ UNCHANGED <<value, expected_type, type_ok, env_file_exists, schema_exists,
                   env_readable, content, yaml, env_vars, errors, stdout>>

\* line 85, and 86-88 when validate_env raises
TryValidate ==
    /\ pc = "validate"
    /\ calls' = Append(calls, "validate_env")
    /\ LET r == validate_env(env_vars, schema_data)
       IN  IF r.raised
           THEN /\ raised' = r.message
                /\ stderr' = Append(stderr, exception_line(r.message))
                /\ exit_code' = 1
                /\ pc' = "exited"
                /\ UNCHANGED errors
           ELSE /\ errors' = r.errors
                /\ pc' = "report"
                /\ UNCHANGED <<raised, stderr, exit_code>>
    /\ UNCHANGED <<value, expected_type, type_ok, env_file_exists, schema_exists,
                   env_readable, content, yaml, env_vars, schema_data, stdout>>

\* the error report without its raise typer.Exit(1): the run falls through
ReportFailure_falls_through ==
    /\ pc = "report"
    /\ errors # <<>>
    /\ stdout' = stdout \o <<FailedHeader>>
                        \o [i \in DOMAIN errors |-> bullet_line(errors[i])]
                        \o <<SuccessLine>>
    /\ exit_code' = 0
    /\ pc' = "exited"
    /\ UNCHANGED <<value, expected_type, type_ok, env_file_exists, schema_exists,
                   env_readable, content, yaml, env_vars, schema_data, errors,
                   raised, stderr, calls>>

\* lines 90-94
ReportFailure ==
    /\ pc = "report"
    /\ errors # <<>>
    /\ stdout' = stdout \o <<FailedHeader>>
                        \o [i \in DOMAIN errors |-> bullet_line(errors[i])]
    /\ exit_code' = 1
    /\ pc' = "exited"
    /\ UNCHANGED <<value, expected_type, type_ok, env_file_exists, schema_exists,
                   env_readable, content, yaml, env_vars, schema_data, errors,
                   raised, stderr, calls>>

\* lines 90, 96
ReportSuccess ==
    /\ pc = "report"
    /\ errors = <<>>
    /\ stdout' = Append(stdout, SuccessLine)
    /\ exit_code' = 0
    /\ pc' = "exited"
    /\ UNCHANGED <<value, expected_type, type_ok, env_file_exists, schema_exists,
                   env_readable, content, yaml, env_vars, schema_data, errors,
                   raised, stderr, calls>>

Next ==
    \/ CheckEnvFile
    \/ CheckSchemaFile
    \/ TryParse
    \/ TryLoad
    \/ TryValidate
    \/ ReportFailure
    \/ ReportSuccess

Spec == Init /\ [][Next]_vars

(***************************************************************************)
(* Claims about validate_type (SpecType).                                  *)
(***************************************************************************)
\* an optional leading '-' followed by one or more decimal digits
MatchesIntPattern(v) ==
    LET body == IF v # <<>> /\ v[1] = "-" THEN Tail(v) ELSE v
    IN  body # <<>> /\ \A i \in DOMAIN body : body[i] \in Digits

\* C2: validate_type(v, "int") is true if and only if v is an optional
\* leading '-' followed by one or more decimal digits and nothing else.
C2_IntIffMinusDigits ==
    (pc = "returned" /\ expected_type = "int")
        => (type_ok <=> MatchesIntPattern(value))

\* C3: for every kind other than "int", validate_type(v, kind) is false if
\* and only if kind is "bool" and the lowercase form of v is not one of
\* true, false, 1, 0, yes, no; "string" and unrecognised kinds accept all.
C3_FalseOnlyForBadBool ==
    (pc = "returned" /\ expected_type # "int")
        => ((type_ok = FALSE)
                <=> (/\ expected_type = "bool"
                     /\ lower(value) \notin
                            { <<"t", "r", "u", "e">>, <<"f", "a", "l", "s", "e">>,
                              <<"1">>, <<"0">>, <<"y", "e", "s">>, <<"n", "o">> }))

\* C3 witness: a bool word in upper case was accepted.
C3_Witness ==
    /\ pc = "returned"
    /\ expected_type = "bool"
    /\ value = <<"F", "A", "L", "S", "E">>
    /\ type_ok = TRUE

(***************************************************************************)
(* Claims about validate_env (SpecValidate).                               *)
(***************************************************************************)
\* what the claim has one schema entry emit
EntryErrors(env, entry) ==
    LET kind == IF entry.rules.has_type THEN entry.rules.type ELSE "string"
    IN  IF entry.name \notin DOMAIN env
        THEN IF entry.rules.has_required /\ entry.rules.required
             THEN << <<"Missing required variable: ">> \o entry.name >>
             ELSE <<>>
        ELSE IF ~validate_type(env[entry.name], kind)
             THEN << entry.name \o <<": expected ", kind, ", got '">>
                        \o env[entry.name] \o <<"'">> >>
             ELSE <<>>

RECURSIVE ConcatEntryErrors(_, _)
ConcatEntryErrors(env, entries) ==
    IF entries = <<>>
    THEN <<>>
    ELSE EntryErrors(env, Head(entries)) \o ConcatEntryErrors(env, Tail(entries))

RulesAreMappings(schema) ==
    \A i \in DOMAIN schema.entries : schema.entries[i].rules.is_mapping

\* C1: for a schema whose rules are mappings validate_env returns exactly
\* the per-entry messages in schema order: one "Missing required variable"
\* for an absent required name, one "expected ..., got ..." for a present
\* value of the wrong type, nothing otherwise; it checks every entry and
\* reports nothing for names that are only in env.
C1_ErrorsPerEntryInOrder ==
    (pc # "call" /\ RulesAreMappings(schema_data))
        => /\ pc = "returned"
           /\ errors = ConcatEntryErrors(env_vars, schema_data.entries)
           /\ Len(errors) <= Len(schema_data.entries)

\* C1 witness: a missing required name and a mistyped value were both
\* reported, in schema order, while a name only in env was not.
C1_Witness ==
    /\ pc = "returned"
    /\ DOMAIN env_vars = { <<"B">>, <<"C">> }
    /\ Len(schema_data.entries) = 2
    /\ schema_data.entries[1].name = <<"A">>
    /\ schema_data.entries[2].name = <<"B">>
    /\ errors = << <<"Missing required variable: ", "A">>,
                   <<"B", ": expected ", "int", ", got '", "x", "'">> >>

(***************************************************************************)
(* Claims about parse_env_file (SpecParse).                                *)
(***************************************************************************)
\* a line that is neither blank nor a comment after trimming
IsAssignmentLine(l) == strip(l) # <<>> /\ Head(strip(l)) # "#"

\* the trimmed text before the first '=' of a line holding one
KeyOf(l) == strip(partition_before(l, "="))

\* the stripped text after the first '=' of a line holding one
ValueOf(l) == strip_value(partition_after(l, "="))

\* the numbers of the lines that are neither blank nor comment and hold no '='
BadLines(text) ==
    { i \in DOMAIN splitlines(text) :
        IsAssignmentLine(splitlines(text)[i]) /\ "=" \notin Range(splitlines(text)[i]) }

\* the value stored for k when the one line k=s is parsed
Reparsed(k, s) == parse_env_file(k \o <<"=">> \o s)

StoredAgain(k, s) ==
    /\ ~Reparsed(k, s).raised
    /\ k \in DOMAIN Reparsed(k, s).env_vars
    /\ Reparsed(k, s).env_vars[k] = s

\* C4 as stated: every stored value s is stored unchanged when the line
\* KEY=s is parsed again.
C4_StripIdempotent ==
    pc = "returned" => \A k \in DOMAIN env_vars : StoredAgain(k, env_vars[k])

\* C4 as amended: a stored value s with no leading or trailing whitespace
\* is stored unchanged when the line KEY=s is parsed again, however many
\* layers of quote characters the original value had.
C4_StripIdempotentUnlessSpaced ==
    pc = "returned"
        => \A k \in DOMAIN env_vars :
               strip(env_vars[k]) = env_vars[k] => StoredAgain(k, env_vars[k])

\* C4 witness: a value under two layers of quotes was stored bare.
C4_Witness ==
    /\ pc = "returned"
    /\ content = <<"a", "=", "\"", "\"", "a", "\"">>
    /\ env_vars = [k \in { <<"a">> } |-> <<"a">>]

\* C5: when every non-blank, non-comment line holds '=', the keys are
\* exactly the trimmed texts before the first '=' of those lines, and each
\* key maps to the stripped text after the first '=' of the last line
\* carrying it; blank and comment lines contribute nothing.
C5_KeysAndLastValue ==
    (pc # "call" /\ BadLines(content) = {})
        => LET lines == splitlines(content)
               assigning == { i \in DOMAIN lines : IsAssignmentLine(lines[i]) }
           IN  /\ pc = "returned"
               /\ DOMAIN env_vars = { KeyOf(lines[i]) : i \in assigning }
               /\ \A k \in DOMAIN env_vars :
                      \E i \in assigning :
                          /\ KeyOf(lines[i]) = k
                          /\ \A j \in assigning : KeyOf(lines[j]) = k => j <= i
                          /\ env_vars[k] = ValueOf(lines[i])

\* C5 witness: a key assigned twice holds its second value, which itself
\* holds a '='.
C5_Witness ==
    /\ pc = "returned"
    /\ content = <<"a", "=", "\n", "a", "=", "=">>
    /\ env_vars = [k \in { <<"a">> } |-> <<"=">>]

\* C6: parsing fails if and only if some non-blank, non-comment line holds
\* no '='; the failure is for the first such line, its message names that
\* line's 1-based number and the line's raw, untrimmed content, and no
\* mapping is returned.
C6_FailsOnFirstBadLineRaw ==
    pc # "call"
        => /\ (pc = "raised") <=> (BadLines(content) # {})
           /\ pc = "raised"
                => LET n == CHOOSE i \in BadLines(content) :
                                \A j \in BadLines(content) : i <= j
                   IN  /\ raised = <<"Invalid syntax at line ">> \o decimal(n)
                                      \o <<": ">> \o splitlines(content)[n]
                       /\ env_vars = EmptyDict

\* C10: every key of a returned mapping is a non-empty string.
C10_KeysNonEmpty ==
    pc = "returned" => \A k \in DOMAIN env_vars : k # <<>>

(***************************************************************************)
(* Claims about the check command (Spec).                                  *)
(***************************************************************************)
\* what each step of the run returns or raises, from the run's inputs
ParseOutcome == parse_env_path(env_readable, content)

LoadOutcome == load_schema(yaml)

ValidateOutcome == validate_env(ParseOutcome.env_vars, LoadOutcome.data)

FilesExist == env_file_exists /\ schema_exists

StepRaises == ParseOutcome.raised \/ LoadOutcome.raised \/ ValidateOutcome.raised

Passes == FilesExist /\ ~StepRaises /\ ValidateOutcome.errors = <<>>

Printed == Range(stdout) \cup Range(stderr)

\* C7: a run ends with exit code 0 and the success line if and only if
\* both files exist, parsing and loading raise nothing and validate_env
\* returns no errors; every other run ends with exit code 1 and never
\* prints the success line.
C7_ExitZeroIffAllPass ==
    pc = "exited"
        => /\ Passes => (exit_code = 0 /\ SuccessLine \in Printed)
           /\ ~Passes => (exit_code = 1 /\ SuccessLine \notin Printed)

\* C7 witness: a run over a non-empty env file and a non-empty schema
\* passed.
C7_Witness ==
    /\ pc = "exited"
    /\ exit_code = 0
    /\ DOMAIN env_vars # {}
    /\ Len(schema_data.entries) = 2
    /\ stdout = <<SuccessLine>>

\* C8 as stated: a failing run writes its diagnostics to the error stream
\* and nothing to the standard stream; only a passing run's success line
\* goes to the standard stream.
C8_FailuresOnlyOnStderr ==
    pc = "exited"
        => /\ exit_code # 0 => (stdout = <<>> /\ stderr # <<>>)
           /\ exit_code = 0 => (stdout = <<SuccessLine>> /\ stderr = <<>>)

\* C8 as amended: a run that fails on a missing file or an exception
\* writes its one diagnostic line to the error stream and nothing to the
\* standard stream; a run that fails on validation errors writes the
\* "Validation failed:" header and the bulleted errors to the standard
\* stream and nothing to the error stream; a passing run writes only the
\* success line, to the standard stream.
C8_StreamsByFailureKind ==
    pc = "exited"
        => /\ (~FilesExist \/ StepRaises)
                => /\ exit_code = 1
                   /\ stdout = <<>>
                   /\ Len(stderr) = 1
                   /\ stderr[1][1] = "Error: "
           /\ (FilesExist /\ ~StepRaises /\ ValidateOutcome.errors # <<>>)
                => /\ exit_code = 1
                   /\ stderr = <<>>
                   /\ stdout = <<FailedHeader>>
                        \o [i \in DOMAIN ValidateOutcome.errors |->
                               <<"  ", Bullet, " ">> \o ValidateOutcome.errors[i]]
           /\ Passes => (stdout = <<SuccessLine>> /\ stderr = <<>>)

\* C8 witness: a run failed on two validation errors, reported on the
\* standard stream.
C8_Witness ==
    /\ pc = "exited"
    /\ exit_code = 1
    /\ Len(errors) = 2
    /\ Len(stdout) = 3
    /\ stdout[1] = FailedHeader
    /\ stderr = <<>>

Pipeline == <<"parse_env_file", "load_schema", "validate_env">>

\* the number of pipeline steps a run over existing files invokes
StepsInvoked ==
    IF ParseOutcome.raised THEN 1 ELSE IF LoadOutcome.raised THEN 2 ELSE 3

\* C9: both files' existence is checked before any parsing; a run with a
\* missing file reports it and exits without invoking parse_env_file,
\* load_schema or validate_env; with both present the steps run in the
\* order parse_env_file, load_schema, validate_env, and a failing step
\* prevents every later one.
C9_ExistenceFirstThenPipeline ==
    /\ pc \in {"check_env", "check_schema"} => calls = <<>>
    /\ ~FilesExist => calls = <<>>
    /\ (pc = "exited" /\ ~FilesExist)
            => (exit_code = 1 /\ Len(stderr) = 1 /\ stderr[1][3] = " not found")
    /\ Len(calls) <= Len(Pipeline)
    /\ calls = SubSeq(Pipeline, 1, Len(calls))
    /\ (pc = "exited" /\ FilesExist) => Len(calls) = StepsInvoked

\* C9 witness: load_schema raised after a successful parse, and
\* validate_env was never invoked.
C9_Witness ==
    /\ pc = "exited"
    /\ yaml.kind = "raise"
    /\ DOMAIN env_vars # {}
    /\ calls = <<"parse_env_file", "load_schema">>

====
